---- MODULE Spec2Model ----
(***************************************************************************)
(* Model of log_processor_2.py: the line classifier parse_log_line, the    *)
(* row formatter and accumulation of process_log, the CSV writer           *)
(* write_logs_to_file and the poll loop of __main__.                       *)
(*                                                                         *)
(* Text is a sequence of one-character strings, so that matching,          *)
(* splitting, escaping and stripping are computed character by character.  *)
(***************************************************************************)
EXTENDS Integers, Sequences, FiniteSets, TLC

(* ------------------------------ bounds --------------------------------- *)

\* largest number of comma-separated fields of a generated line
MaxFields == 25
\* largest number of lines of the input file
MaxLines == 3
\* largest number of poll-loop iterations explored
MaxCount == 2

(* --------------------------- program constants ------------------------- *)

WORKER_CSV_HEADER == <<
    "t", "i", "m", "e", "s", "t", "a", "m", "p", ",", "C", "h", "u", "n", "k", " ", "u", "s",
    "e", "d", ",", "C", "h", "u", "n", "k", " ", "a", "v", "a", "i", "l", "a", "b", "l", "e",
    ",", "S", "l", "o", "t", " ", "u", "s", "e", "d", ",", "S", "l", "o", "t", " ", "a", "v",
    "a", "i", "l", "a", "b", "l", "e", ",", "S", "t", "a", "c", "k", " ", "u", "s", "e", "d",
    ",", "S", "t", "a", "c", "k", " ", "a", "v", "a", "i", "l", "a", "b", "l", "e", ",", "G",
    "a", "r", "b", "a", "g", "e", " ", "c", "o", "l", "l", "e", "c", "t", "i", "o", "n", "s",
    ",", "K", "e", "y", "s", " ", "u", "s", "e", "d", ",", "M", "o", "d", "u", "l", "e", "s",
    " ", "l", "o", "a", "d", "e", "d", ",", "P", "a", "r", "s", "e", "r", " ", "u", "s", "e",
    "d", ",", "F", "l", "o", "a", "t", "i", "n", "g", " ", "P", "o", "i", "n", "t", "\n" >>

CONTROLLER_CSV_HEADER == <<
    "t", "i", "m", "e", "s", "t", "a", "m", "p", ",", "P", "i", "x", "e", "l", "s", " ", "d",
    "r", "a", "w", "n", ",", "F", "r", "a", "m", "e", "s", " ", "d", "r", "a", "w", "n", ",",
    "N", "e", "t", "w", "o", "r", "k", " ", "b", "y", "t", "e", "s", " ", "r", "e", "a", "d",
    ",", "N", "e", "t", "w", "o", "r", "k", " ", "b", "y", "t", "e", "s", " ", "w", "r", "i",
    "t", "t", "e", "n", ",", "N", "e", "t", "w", "o", "r", "k", " ", "s", "o", "c", "k", "e",
    "t", "s", ",", "T", "i", "m", "e", "r", "s", ",", "F", "i", "l", "e", "s", ",", "P", "o",
    "c", "o", " ", "d", "i", "s", "p", "l", "a", "y", " ", "l", "i", "s", "t", " ", "u", "s",
    "e", "d", ",", "P", "i", "u", " ", "c", "o", "m", "m", "a", "n", "d", " ", "L", "i", "s",
    "t", " ", "u", "s", "e", "d", ",", "S", "P", "I", " ", "f", "l", "a", "s", "h", " ", "e",
    "r", "a", "s", "e", "s", ",", "S", "y", "s", "t", "e", "m", " ", "b", "y", "t", "e", "s",
    " ", "f", "r", "e", "e", ",", "C", "P", "U", " ", "0", ",", "C", "P", "U", " ", "1", ",",
    "C", "h", "u", "n", "k", " ", "u", "s", "e", "d", ",", "C", "h", "u", "n", "k", " ", "a",
    "v", "a", "i", "l", "a", "b", "l", "e", ",", "S", "l", "o", "t", " ", "u", "s", "e", "d",
    ",", "S", "l", "o", "t", " ", "a", "v", "a", "i", "l", "a", "b", "l", "e", ",", "S", "t",
    "a", "c", "k", " ", "u", "s", "e", "d", ",", "S", "t", "a", "c", "k", " ", "a", "v", "a",
    "i", "l", "a", "b", "l", "e", ",", "G", "a", "r", "b", "a", "g", "e", " ", "c", "o", "l",
    "l", "e", "c", "t", "i", "o", "n", "s", ",", "K", "e", "y", "s", " ", "u", "s", "e", "d",
    ",", "M", "o", "d", "u", "l", "e", "s", " ", "l", "o", "a", "d", "e", "d", ",", "P", "a",
    "r", "s", "e", "r", " ", "u", "s", "e", "d", ",", "F", "l", "o", "a", "t", "i", "n", "g",
    " ", "P", "o", "i", "n", "t", "\n" >>

\* the literal text between (\d+) and (.+) in the pattern of parse_log_line
MARKER == << " ", "i", "n", "s", "t", "r", "u", "m", "e", "n", "t", "s", ":", " " >>

\* the substring tested by `"instruments:" in line`
SUBSTRING == << "i", "n", "s", "t", "r", "u", "m", "e", "n", "t", "s", ":" >>

\* Python's None in the three positions of parse_log_line's result.  The
\* key and the data are never these values when a line is classified: a
\* key is "worker" or "controller", a timestamp is int(\d+) >= 0, and a
\* data text consists of one-character strings.
NoneKey == "None"
NoneInt == -1
NoneText == << "None" >>

(* ------------------------- character classes --------------------------- *)

Digits == << "0", "1", "2", "3", "4", "5", "6", "7", "8", "9" >>

\* \d of the pattern
IsDigit(c) == \E i \in 1..10 : Digits[i] = c

\* the characters str.strip() removes, among those of the model's texts
IsSpace(c) == c \in { " ", "\t", "\n", "\r", "\f" }

(* ----------------------------- str methods ----------------------------- *)

\* sub in s
Contains(s, sub) ==
    \E i \in 0..(Len(s) - Len(sub)) : SubSeq(s, i + 1, i + Len(sub)) = sub

\* length of the longest prefix of s, from position i on, made of digits (\d+ is greedy)
RECURSIVE DigitRun(_, _)
DigitRun(s, i) ==
    IF i <= Len(s) /\ IsDigit(s[i]) THEN 1 + DigitRun(s, i + 1) ELSE 0

\* length of the longest run from position i on without a newline (. does
\* not match "\n", and + is greedy)
RECURSIVE DotRun(_, _)
DotRun(s, i) ==
    IF i <= Len(s) /\ s[i] # "\n" THEN 1 + DotRun(s, i + 1) ELSE 0

\* int(s) for a text of decimal digits
RECURSIVE int(_)
int(s) ==
    IF s = << >> THEN 0
    ELSE 10 * int(SubSeq(s, 1, Len(s) - 1))
         + (CHOOSE d \in 0..9 : Digits[d + 1] = s[Len(s)])

\* str(n) of a non-negative integer, as the f-string renders it
RECURSIVE str(_)
str(n) ==
    IF n < 10 THEN << Digits[n + 1] >>
    ELSE str(n \div 10) \o << Digits[(n % 10) + 1] >>

\* s.split(sep) for a one-character sep: always at least one item
RECURSIVE split(_, _)
split(s, sep) ==
    IF \A i \in 1..Len(s) : s[i] # sep THEN << s >>
    ELSE LET k == CHOOSE i \in 1..Len(s) :
                      s[i] = sep /\ \A j \in 1..(i - 1) : s[j] # sep
         IN  << SubSeq(s, 1, k - 1) >> \o split(SubSeq(s, k + 1, Len(s)), sep)

\* s.replace(old, new) for a one-character old
RECURSIVE replace(_, _, _)
replace(s, old, new) ==
    IF s = << >> THEN << >>
    ELSE (IF Head(s) = old THEN new ELSE << Head(s) >>) \o replace(Tail(s), old, new)

RECURSIVE lstrip(_)
lstrip(s) ==
    IF s # << >> /\ IsSpace(Head(s)) THEN lstrip(Tail(s)) ELSE s

RECURSIVE rstrip(_)
rstrip(s) ==
    IF s # << >> /\ IsSpace(s[Len(s)]) THEN rstrip(SubSeq(s, 1, Len(s) - 1)) ELSE s

\* s.strip()
strip(s) == rstrip(lstrip(s))

(* ----------------------------- parse_log_line -------------------------- *)

\* Match with \d* in place of \d+
Match_optional_digits(line) ==
    LET d == DigitRun(line, 1)
        r == d + Len(MARKER) + 1
        n == DotRun(line, r)
    IN  IF SubSeq(line, d + 1, d + Len(MARKER)) = MARKER /\ n >= 1
        THEN [ok |-> TRUE, timestamp |-> SubSeq(line, 1, d),
              data |-> SubSeq(line, r, r + n - 1)]
        ELSE [ok |-> FALSE, timestamp |-> << >>, data |-> << >>]

\* re.match(r'(\d+) instruments: (.+)', line): anchored at the start of the
\* line only; the result is the two groups, or no match
Match(line) ==
    LET d == DigitRun(line, 1)
        r == d + Len(MARKER) + 1
        n == DotRun(line, r)
    IN  IF d >= 1 /\ SubSeq(line, d + 1, d + Len(MARKER)) = MARKER /\ n >= 1
        THEN [ok |-> TRUE, timestamp |-> SubSeq(line, 1, d),
              data |-> SubSeq(line, r, r + n - 1)]
        ELSE [ok |-> FALSE, timestamp |-> << >>, data |-> << >>]

NoMatch == [key |-> NoneKey, timestamp |-> NoneInt, data |-> NoneText]

\* Classify with the two keys exchanged
Classify_swapped(data_items) ==
    IF Len(data_items) = 11 THEN "controller"
    ELSE IF Len(data_items) = 24 THEN "worker"
    ELSE NoneKey

\* Classify with >= in place of ==
Classify_at_least(data_items) ==
    IF Len(data_items) >= 24 THEN "controller"
    ELSE IF Len(data_items) >= 11 THEN "worker"
    ELSE NoneKey

\* Classify with 25 in place of 24
Classify_25(data_items) ==
    IF Len(data_items) = 11 THEN "worker"
    ELSE IF Len(data_items) = 25 THEN "controller"
    ELSE NoneKey

\* the key chosen by the if / elif on len(data_items); NoneKey when the
\* function falls through to its last return
Classify(data_items) ==
    IF Len(data_items) = 11 THEN "worker"
    ELSE IF Len(data_items) = 24 THEN "controller"
    ELSE NoneKey

parse_log_line(line) ==
    IF Contains(line, SUBSTRING)
    THEN LET match == Match(line)
         IN  IF match.ok
             THEN LET timestamp == int(match.timestamp)
                      data_items == split(match.data, ",")
                  IN  IF Classify(data_items) # NoneKey
                      THEN [key |-> Classify(data_items), timestamp |-> timestamp,
                            data |-> match.data]
                      ELSE NoMatch
             ELSE NoMatch
    ELSE NoMatch

\* LogEntry without the space after the comma
LogEntry_no_space(timestamp, data) ==
    LET escaped_data == replace(data, "\"", << "\\", "\"" >>)
    IN  str(timestamp) \o << "," >> \o strip(escaped_data)

\* LogEntry escaping a double quote by doubling it
LogEntry_doubled(timestamp, data) ==
    LET escaped_data == replace(data, "\"", << "\"", "\"" >>)
    IN  str(timestamp) \o << ",", " " >> \o strip(escaped_data)

\* log_entry of process_log: f'{timestamp}, {escaped_data.strip()}'
LogEntry(timestamp, data) ==
    LET escaped_data == replace(data, "\"", << "\\", "\"" >>)
    IN  str(timestamp) \o << ",", " " >> \o strip(escaped_data)

(* ------------------------------ input lines ---------------------------- *)

\* sep.join(items)
RECURSIVE Join(_, _)
Join(items, sep) ==
    IF items = << >> THEN << >>
    ELSE IF Len(items) = 1 THEN items[1]
    ELSE items[1] \o sep \o Join(Tail(items), sep)

\* the fields "1", "2", ..., "n"
PlainFields(n) == [i \in 1..n |-> str(i)]

\* field values with a double quote, empty, and with outer whitespace
SpecialFields ==
    { << "a", "\"", "b" >>, << >>, << " ", "x" >>, << "x", " ", "\t" >> }

\* field lists of 1..MaxFields fields, all plain or with the first or the
\* last field replaced by a special value
FieldLists ==
    { PlainFields(n) : n \in 1..MaxFields }
    \cup { [PlainFields(n) EXCEPT ![1] = s] : n \in 1..MaxFields, s \in SpecialFields }
    \cup { [PlainFields(n) EXCEPT ![n] = s] : n \in 1..MaxFields, s \in SpecialFields }

\* what a line starts with: digits (also with leading zeros), nothing,
\* text before or after the digits, a sign
TsTexts ==
    { << "1", "0", "0" >>, << "0", "0", "7" >>, << "0" >>, << >>,
      << "x", "1" >>, << "1", "x" >>, << "-", "5" >> }

\* what follows it: the marker, the marker without its trailing or with a
\* doubled leading space, and a text without the substring "instruments:"
Seps ==
    { MARKER,
      << " ", "i", "n", "s", "t", "r", "u", "m", "e", "n", "t", "s", ":" >>,
      << " ", " ", "i", "n", "s", "t", "r", "u", "m", "e", "n", "t", "s", ":", " " >>,
      << " ", "i", "n", "s", "t", "r", "u", "m", "e", "n", "t", ":", " " >> }

Eols == { << "\n" >>, << >> }

\* A line of the log, by its parts; Render gives its text.
LineOf(ts, sep, fields, eol) == [ts |-> ts, sep |-> sep, fields |-> fields, eol |-> eol]

Render(d) == d.ts \o d.sep \o Join(d.fields, << "," >>) \o d.eol

RenderAll(ds) == [i \in 1..Len(ds) |-> Render(ds[i])]

\* the example line of the documentation and its Controller counterpart
WorkerLine == LineOf(<< "1", "0", "0" >>, MARKER, PlainFields(11), << "\n" >>)
ControllerLine == LineOf(<< "0", "0", "7" >>, MARKER, PlainFields(24), << "\n" >>)

\* the lines a one-line input file is drawn from
LineSet ==
    { LineOf(<< "1", "0", "0" >>, MARKER, f, << "\n" >>) : f \in FieldLists }
    \cup { LineOf(ts, sep, f, eol) :
             ts \in TsTexts, sep \in Seps, eol \in Eols,
             f \in { PlainFields(11), PlainFields(24) } }

\* the lines a longer input file is made of, and the lines appended to the
\* log while the program sleeps
SmallLines ==
    { WorkerLine, ControllerLine,
      LineOf(<< "5" >>, MARKER,
             [PlainFields(11) EXCEPT ![1] = << "a", "\"", "b" >>], << "\n" >>),
      LineOf(<< "1", "0", "0" >>, MARKER, PlainFields(12), << "\n" >>),
      LineOf(<< "x", "1" >>, MARKER, PlainFields(11), << "\n" >>) }

RECURSIVE SeqsUpTo(_, _)
SeqsUpTo(S, n) ==
    IF n = 0 THEN { << >> }
    ELSE LET shorter == SeqsUpTo(S, n - 1)
         IN  shorter \cup { Append(q, x) : q \in shorter, x \in S }

\* the input files the program may find when it starts
InputFiles ==
    { << d >> : d \in LineSet } \cup SeqsUpTo(SmallLines, MaxLines)

\* what the output files may hold before the first cycle: nothing, or the
\* rows of an earlier run
StaleFiles == { << >>, << "o", "l", "d", ",", "r", "o", "w", "\n" >> }

(* -------------------------------- state -------------------------------- *)

VARIABLES
    input_readable,   \* nonMem.log exists and can be opened for reading
    input_file,       \* its lines, each with its line terminator
    worker_file,      \* text of database/worker_file2.csv
    controller_file,  \* text of database/controller_file2.csv
    stdout,           \* the counts printed by the poll loop
    count,            \* loop counter of __main__
    pc,               \* position of the program
    pos,              \* number of lines the for loop has consumed
    line, key, timestamp, data,     \* locals of the for loop of process_log
    worker_logs, controller_logs,   \* locals of process_log
    sent,             \* the parts of each line of input_file
    rewritten,        \* output files write_logs_to_file has completed in this cycle
    input_changed     \* the log changed during the last sleep

vars == << input_readable, input_file, worker_file, controller_file, stdout, count,
           pc, pos, line, key, timestamp, data, worker_logs, controller_logs,
           sent, rewritten, input_changed >>

locals == << line, key, timestamp, data >>

Unbound == /\ line = NoneText
           /\ key = NoneKey
           /\ timestamp = NoneInt
           /\ data = NoneText

Init ==
    /\ \E ds \in InputFiles :
          /\ sent = ds
          /\ input_file = RenderAll(ds)
    /\ input_readable \in BOOLEAN
    /\ input_readable = FALSE => sent = << >>
    /\ \E old \in StaleFiles :
          /\ worker_file = old
          /\ controller_file = old
    /\ stdout = << >>
    /\ count = 0
    /\ pc = "loop"
    /\ pos = 0
    /\ Unbound
    /\ worker_logs = << >>
    /\ controller_logs = << >>
    /\ rewritten = { }
    /\ input_changed = FALSE

(* ------------------------------- __main__ ------------------------------ *)

\* count += 1; print(...); process_log(...) up to `with open(input_file, 'r')`
EnterCycle ==
    /\ pc = "loop"
    /\ count < MaxCount
    /\ input_readable
    /\ count' = count + 1
    /\ stdout' = Append(stdout, count + 1)
    /\ worker_logs' = << >>
    /\ controller_logs' = << >>
    /\ pos' = 0
    /\ rewritten' = { }
    /\ pc' = "read"
    /\ UNCHANGED << input_readable, input_file, worker_file, controller_file,
                    locals, sent, input_changed >>

\* OpenInputFails with the exception caught and the loop going on
OpenInputFails_retry ==
    /\ pc = "loop"
    /\ count < MaxCount
    /\ ~input_readable
    /\ count' = count + 1
    /\ stdout' = Append(stdout, count + 1)
    /\ worker_logs' = << >>
    /\ controller_logs' = << >>
    /\ rewritten' = { }
    /\ pc' = "sleep"
    /\ UNCHANGED << input_readable, input_file, worker_file, controller_file,
                    pos, locals, sent, input_changed >>

\* the same, with open(input_file, 'r') raising: nothing catches it
OpenInputFails ==
    /\ pc = "loop"
    /\ count < MaxCount
    /\ ~input_readable
    /\ count' = count + 1
    /\ stdout' = Append(stdout, count + 1)
    /\ worker_logs' = << >>
    /\ controller_logs' = << >>
    /\ rewritten' = { }
    /\ pc' = "crashed"
    /\ UNCHANGED << input_readable, input_file, worker_file, controller_file,
                    pos, locals, sent, input_changed >>

(* ------------------------------ process_log ---------------------------- *)

\* one iteration of `for line in file`
ReadLine ==
    /\ pc = "read"
    /\ pos < Len(input_file)
    /\ LET l == input_file[pos + 1]
           r == parse_log_line(l)
       IN  /\ line' = l
           /\ key' = r.key
           /\ timestamp' = r.timestamp
           /\ data' = r.data
           /\ IF r.key # NoneKey
              THEN IF r.key = "worker"
                   THEN /\ worker_logs' = Append(worker_logs, LogEntry(r.timestamp, r.data))
                        /\ UNCHANGED controller_logs
                   ELSE /\ controller_logs' = Append(controller_logs, LogEntry(r.timestamp, r.data))
                        /\ UNCHANGED worker_logs
              ELSE UNCHANGED << worker_logs, controller_logs >>
    /\ pos' = pos + 1
    /\ UNCHANGED << input_readable, input_file, worker_file, controller_file, stdout,
                    count, pc, sent, rewritten, input_changed >>

(* --------------------------- write_logs_to_file ------------------------ *)

\* Rows without the "\n" after each log
RECURSIVE Rows_no_newline(_, _)
Rows_no_newline(logs, n) ==
    IF n = 0 THEN << >> ELSE Rows_no_newline(logs, n - 1) \o logs[n]

\* the text of the first n logs, each followed by "\n"
RECURSIVE Rows(_, _)
Rows(logs, n) ==
    IF n = 0 THEN << >> ELSE Rows(logs, n - 1) \o logs[n] \o << "\n" >>

\* the text of the file after open(output_file, 'w') and the first
\* `writes` calls of output.write
Written(logs, header, writes) ==
    IF writes = 0 THEN << >> ELSE header \o Rows(logs, writes - 1)

\* write_logs_to_file opening the file in mode 'a'
write_logs_to_file_append(logs, output_file, header) ==
    output_file \o Written(logs, header, 1 + Len(logs))

\* the text of the file after write_logs_to_file(logs, output_file, header),
\* output_file being the text the file had: mode 'w' truncates it
write_logs_to_file(logs, output_file, header) == Written(logs, header, 1 + Len(logs))

\* What write_logs_to_file leaves when it raises: open fails and the file
\* is as it was (writes = -1), or the file was truncated and only the first
\* `writes` calls of output.write took effect.
Failed(old, logs, header, writes) ==
    IF writes = -1 THEN old ELSE Written(logs, header, writes)

\* end of the for loop, then line 101
WriteWorker ==
    /\ pc = "read"
    /\ pos = Len(input_file)
    /\ worker_file' = write_logs_to_file(worker_logs, worker_file, WORKER_CSV_HEADER)
    /\ rewritten' = rewritten \cup { "worker" }
    /\ pc' = "write_controller"
    /\ UNCHANGED << input_readable, input_file, controller_file, stdout, count, pos,
                    locals, worker_logs, controller_logs, sent, input_changed >>

\* line 101 raising: nothing catches it
WriteWorkerFails ==
    /\ pc = "read"
    /\ pos = Len(input_file)
    /\ \E writes \in (-1)..Len(worker_logs) :
          worker_file' = Failed(worker_file, worker_logs, WORKER_CSV_HEADER, writes)
    /\ pc' = "crashed"
    /\ UNCHANGED << input_readable, input_file, controller_file, stdout, count, pos,
                    locals, worker_logs, controller_logs, sent, rewritten, input_changed >>

\* line 102, and the return of process_log
WriteController ==
    /\ pc = "write_controller"
    /\ controller_file' = write_logs_to_file(controller_logs, controller_file, CONTROLLER_CSV_HEADER)
    /\ rewritten' = rewritten \cup { "controller" }
    /\ pc' = "sleep"
    /\ UNCHANGED << input_readable, input_file, worker_file, stdout, count, pos,
                    locals, worker_logs, controller_logs, sent, input_changed >>

\* WriteControllerFails with the exception caught and the loop going on
WriteControllerFails_caught ==
    /\ pc = "write_controller"
    /\ \E writes \in (-1)..Len(controller_logs) :
          controller_file' =
              Failed(controller_file, controller_logs, CONTROLLER_CSV_HEADER, writes)
    /\ pc' = "sleep"
    /\ UNCHANGED << input_readable, input_file, worker_file, stdout, count, pos,
                    locals, worker_logs, controller_logs, sent, rewritten, input_changed >>

\* line 102 raising: nothing catches it
WriteControllerFails ==
    /\ pc = "write_controller"
    /\ \E writes \in (-1)..Len(controller_logs) :
          controller_file' =
              Failed(controller_file, controller_logs, CONTROLLER_CSV_HEADER, writes)
    /\ pc' = "crashed"
    /\ UNCHANGED << input_readable, input_file, worker_file, stdout, count, pos,
                    locals, worker_logs, controller_logs, sent, rewritten, input_changed >>

(* ------------------------------ time.sleep(1) -------------------------- *)

\* The log is written by another process.  A cycle takes far less time than
\* the sleep that follows it, so the model lets the log change during the
\* sleep only: each cycle reads the file as the last sleep left it.

\* process_log has returned and its locals are gone when the sleep ends
Wake ==
    /\ pc = "sleep"
    /\ pc' = "loop"
    /\ line' = NoneText
    /\ key' = NoneKey
    /\ timestamp' = NoneInt
    /\ data' = NoneText
    /\ pos' = 0
    /\ worker_logs' = << >>
    /\ controller_logs' = << >>
    /\ UNCHANGED << worker_file, controller_file, stdout, count, rewritten >>

\* the log is as it was
Sleep ==
    /\ Wake
    /\ input_changed' = FALSE
    /\ UNCHANGED << input_readable, input_file, sent >>

\* the device logged one more line (creating the log if it was not there)
SleepAppend ==
    /\ Wake
    /\ Len(input_file) < MaxLines
    /\ \E d \in SmallLines :
          /\ sent' = Append(sent, d)
          /\ input_file' = Append(input_file, Render(d))
    /\ input_readable' = TRUE
    /\ input_changed' = TRUE

\* the log was rotated: it is there and empty
SleepRotate ==
    /\ Wake
    /\ sent' = << >>
    /\ input_file' = << >>
    /\ input_readable' = TRUE
    /\ input_changed' = TRUE

\* the log was removed or made unreadable
SleepRemove ==
    /\ Wake
    /\ sent' = << >>
    /\ input_file' = << >>
    /\ input_readable' = FALSE
    /\ input_changed' = TRUE

Next ==
    \/ EnterCycle
    \/ OpenInputFails
    \/ ReadLine
    \/ WriteWorker
    \/ WriteWorkerFails
    \/ WriteController
    \/ WriteControllerFails
    \/ Sleep
    \/ SleepAppend
    \/ SleepRotate
    \/ SleepRemove

Spec == Init /\ [][Next]_vars

TypeOK ==
    /\ input_readable \in BOOLEAN
    /\ count \in 0..MaxCount
    /\ pc \in { "loop", "read", "write_controller", "sleep", "crashed" }
    /\ pos \in 0..Len(input_file)
    /\ key \in { NoneKey, "worker", "controller" }
    /\ rewritten \subseteq { "worker", "controller" }
    /\ input_file = RenderAll(sent)
    /\ pos >= 1 => line = input_file[pos]
    /\ stdout = [i \in 1..count |-> i]

(* ------------------------- vocabulary of the properties ---------------- *)

AllDigits(s) == \A i \in 1..Len(s) : \E n \in 0..9 : s[i] = Digits[n + 1]

NoSeparator(f) == \A i \in 1..Len(f) : f[i] # "," /\ f[i] # "\n"

\* the line is '<integer> instruments: <rest>' with <rest> the fields joined
\* by commas
PatternLine(d) ==
    /\ d.ts # << >>
    /\ AllDigits(d.ts)
    /\ d.sep = MARKER
    /\ d.fields # << >>
    /\ \A i \in 1..Len(d.fields) : NoSeparator(d.fields[i])
    /\ Len(d.fields) = 1 => d.fields[1] # << >>

\* the text contains "instruments:"
HasSubstring(text) ==
    \E i \in 1..Len(text) :
        /\ i + 11 <= Len(text)
        /\ \A j \in 1..12 : text[i + j - 1] = SUBSTRING[j]

\* the text begins with '<digits> instruments: <non-empty rest>'
BeginsWithPattern(text) ==
    \E d \in 1..Len(text) :
        /\ AllDigits(SubSeq(text, 1, d))
        /\ d + 15 <= Len(text)
        /\ \A j \in 1..14 : text[d + j] = MARKER[j]
        /\ text[d + 15] # "\n"

\* a line has been handed to parse_log_line in this cycle; the locals hold
\* its results
Processed == pos >= 1 /\ line # NoneText

\* the parts of that line
Current == sent[pos]

\* the row the for loop appended for that line
LastRow ==
    IF key = "worker" THEN worker_logs[Len(worker_logs)]
    ELSE controller_logs[Len(controller_logs)]

\* the digits without their leading zeros (a lone 0 stays)
Canonical(ts) ==
    LET k == CHOOSE i \in 1..Len(ts) :
                 /\ \A j \in 1..(i - 1) : ts[j] = "0"
                 /\ (ts[i] # "0" \/ i = Len(ts))
    IN  SubSeq(ts, k, Len(ts))

Blank(c) == c = " " \/ c = "\t"

\* the field f with a backslash before each double quote
Escaped(f) ==
    LET quotes(i) == Cardinality({ j \in 1..i : f[j] = "\"" })
        n == Len(f) + quotes(Len(f))
    IN  [k \in 1..n |->
            LET i == CHOOSE i \in 1..Len(f) : k \in { i + quotes(i) - 1, i + quotes(i) }
            IN  IF f[i] = "\"" /\ k = i + quotes(i) - 1 THEN "\\" ELSE f[i]]

\* the text without the blanks at its start
TrimLeft(f) ==
    LET k == CHOOSE i \in 1..(Len(f) + 1) :
                 /\ \A j \in 1..(i - 1) : Blank(f[j])
                 /\ (i = Len(f) + 1 \/ ~Blank(f[i]))
    IN  SubSeq(f, k, Len(f))

\* the text without the blanks at its end
TrimRight(f) ==
    LET k == CHOOSE i \in 0..Len(f) :
                 /\ \A j \in (i + 1)..Len(f) : Blank(f[j])
                 /\ (i = 0 \/ ~Blank(f[i]))
    IN  SubSeq(f, 1, k)

\* the fields as written in the line, joined by commas
Payload(d) == Join(d.fields, << "," >>)

\* the fields with their double quotes escaped, joined by commas
EscapedPayload(d) == Join([i \in 1..Len(d.fields) |-> Escaped(d.fields[i])], << "," >>)

\* the line has no leading zero in its timestamp, no double quote in its
\* fields and no blank at the start or the end of its payload
Clean(d) ==
    /\ Canonical(d.ts) = d.ts
    /\ \A i \in 1..Len(d.fields) : \A j \in 1..Len(d.fields[i]) : d.fields[i][j] # "\""
    /\ TrimLeft(TrimRight(Payload(d))) = Payload(d)

\* number of comma-separated columns of a text
Columns(text) == 1 + Cardinality({ i \in 1..Len(text) : text[i] = "," })

\* the lines of a text whose every line ends with "\n"
LinesOf(text) ==
    LET items == split(text, "\n") IN SubSeq(items, 1, Len(items) - 1)

(* ------------------------------- C1 ------------------------------------ *)

\* C1: a line '<integer> instruments: <rest>' whose <rest> has exactly 11
\* comma-separated fields is tagged Worker, one with exactly 24 is tagged
\* Controller, and the returned payload is those fields, unchanged and in
\* their order.
C1_Classification ==
    (Processed /\ PatternLine(Current)) =>
        /\ Len(Current.fields) = 11 => (key = "worker" /\ data = Payload(Current))
        /\ Len(Current.fields) = 24 => (key = "controller" /\ data = Payload(Current))

C1_Witness ==
    /\ Processed
    /\ PatternLine(Current)
    /\ Len(Current.fields) = 24
    /\ Current.fields[24] = << "x", " ", "\t" >>
    /\ key = "controller"

(* ------------------------------- C2 ------------------------------------ *)

\* C2: for a line that matches the pattern with a field count other than 11
\* and 24, parse_log_line returns (None, None, None) and process_log adds
\* no row to either dataset.
C2_OtherCountsDropped ==
    [][ ( /\ pc = "read"
          /\ pos < Len(input_file)
          /\ PatternLine(sent[pos + 1])
          /\ Len(sent[pos + 1].fields) \notin { 11, 24 } )
        => ( /\ key' = NoneKey
             /\ timestamp' = NoneInt
             /\ data' = NoneText
             /\ worker_logs' = worker_logs
             /\ controller_logs' = controller_logs ) ]_vars

C2_Witness ==
    /\ Processed
    /\ PatternLine(Current)
    /\ Len(Current.fields) = 12
    /\ pos = 2
    /\ key = NoneKey
    /\ Len(worker_logs) + Len(controller_logs) = 1

(* ------------------------------- C3 ------------------------------------ *)

\* C3: a line without the substring "instruments:", or with it but not
\* beginning with '<digits> instruments: <non-empty rest>', gives no match
\* and is dropped: no row is added, nothing is raised and the for loop goes
\* on with the next line.
C3_NonMatchingDropped ==
    [][ ( /\ pc = "read"
          /\ pos < Len(input_file)
          /\ (~HasSubstring(input_file[pos + 1]) \/ ~BeginsWithPattern(input_file[pos + 1])) )
        => ( /\ key' = NoneKey
             /\ timestamp' = NoneInt
             /\ data' = NoneText
             /\ worker_logs' = worker_logs
             /\ controller_logs' = controller_logs
             /\ pc' = "read"
             /\ pos' = pos + 1 ) ]_vars

C3_Witness ==
    /\ pc = "read"
    /\ pos = 2
    /\ HasSubstring(input_file[1])
    /\ ~BeginsWithPattern(input_file[1])
    /\ key = "worker"
    /\ worker_logs = << LastRow >>
    /\ controller_logs = << >>

(* ------------------------------- C4 ------------------------------------ *)

RowPayload(row, d) == SubSeq(row, Len(Canonical(d.ts)) + 3, Len(row))

\* C5 as stated: in the row every double quote of a field has a backslash
\* before it and every other character of the fields is unchanged.
C5_OnlyQuotesChange ==
    (Processed /\ PatternLine(Current) /\ key # NoneKey) =>
        RowPayload(LastRow, Current) = EscapedPayload(Current)

\* C5, amended: in the row every double quote of a field has a backslash
\* before it and every other character of the fields is unchanged, except
\* that the blanks at the start of the first field and at the end of the
\* last field are removed; the escaped payload has the field count the line
\* was classified by.
C5_QuoteEscaping ==
    (Processed /\ PatternLine(Current) /\ key # NoneKey) =>
        /\ RowPayload(LastRow, Current) = TrimLeft(TrimRight(EscapedPayload(Current)))
        /\ Columns(RowPayload(LastRow, Current)) = Len(Current.fields)
        /\ key = "worker" <=> Len(Current.fields) = 11
        /\ key = "controller" <=> Len(Current.fields) = 24

C5_Witness ==
    /\ Processed
    /\ PatternLine(Current)
    /\ Current.fields[1] = << "a", "\"", "b" >>
    /\ key = "worker"
    /\ SubSeq(RowPayload(LastRow, Current), 1, 5) = << "a", "\\", "\"", "b", "," >>

(* ------------------------------- C6 ------------------------------------ *)

\* the row of a classified line: the timestamp without leading zeros, a
\* comma, a space, the escaped fields joined by commas, outer blanks removed
ExpectedRow(d) ==
    Canonical(d.ts) \o << ",", " " >> \o TrimLeft(TrimRight(EscapedPayload(d)))

\* the lines of the given field count among the first n lines of the input
RECURSIVE LinesOfKind(_, _, _)
LinesOfKind(ds, fields, n) ==
    IF n = 0 THEN << >>
    ELSE LinesOfKind(ds, fields, n - 1)
         \o (IF PatternLine(ds[n]) /\ Len(ds[n].fields) = fields THEN << ds[n] >> ELSE << >>)

\* the header line, then one newline-terminated row per given line
RECURSIVE ExpectedFile(_, _)
ExpectedFile(header, ds) ==
    IF ds = << >> THEN header
    ELSE ExpectedFile(header, SubSeq(ds, 1, Len(ds) - 1))
         \o ExpectedRow(ds[Len(ds)]) \o << "\n" >>

\* C6: after a completed cycle each CSV is its header line followed by one
\* newline-terminated row per line of its variant in the input as read in
\* that cycle, in input order, and nothing else: 1 + that many lines.
C6_OutputFiles ==
    pc = "sleep" =>
        LET workers == LinesOfKind(sent, 11, Len(sent))
            controllers == LinesOfKind(sent, 24, Len(sent))
        IN  /\ worker_file = ExpectedFile(WORKER_CSV_HEADER, workers)
            /\ controller_file = ExpectedFile(CONTROLLER_CSV_HEADER, controllers)
            /\ Len(LinesOf(worker_file)) = 1 + Len(workers)
            /\ Len(LinesOf(controller_file)) = 1 + Len(controllers)
            /\ worker_file[Len(worker_file)] = "\n"
            /\ controller_file[Len(controller_file)] = "\n"

C6_Witness ==
    /\ pc = "sleep"
    /\ count = 2
    /\ input_changed
    /\ sent = << WorkerLine, ControllerLine >>
    /\ Len(LinesOf(worker_file)) = 2
    /\ Len(LinesOf(controller_file)) = 2

(* ------------------------------- C7 ------------------------------------ *)

\* C7: a cycle over an input file that did not change since the cycle
\* before it leaves each output file with the text that cycle gave it.
C7_Idempotent ==
    [][ (count >= 2 /\ ~input_changed) =>
            /\ (pc = "read" /\ pc' = "write_controller") => worker_file' = worker_file
            /\ (pc = "write_controller" /\ pc' = "sleep") => controller_file' = controller_file
      ]_vars

C7_Witness ==
    /\ pc = "sleep"
    /\ count >= 2
    /\ ~input_changed
    /\ Len(worker_logs) >= 1
    /\ Len(controller_logs) >= 1
    /\ rewritten = { "worker", "controller" }

(* ------------------------------- C8 ------------------------------------ *)

\* the process is between cycles or has errored out
BetweenCycles == pc = "sleep" \/ (pc = "loop" /\ count >= 1)

\* C8 as stated: the process never has errored out, or moved on, with only
\* one of the two output files rewritten in the cycle.
C8_NoPartialFailure ==
    (pc = "crashed" \/ BetweenCycles) =>
        (rewritten # { "worker" } /\ rewritten # { "controller" })

\* C8, amended: a cycle completes with both output files rewritten or the
\* process errors out; it never moves on with only one of them rewritten,
\* and when it has errored out it has rewritten none of them or the Worker
\* file only, never the Controller file only.
C8_CompleteOrCrashed ==
    /\ BetweenCycles => rewritten = { "worker", "controller" }
    /\ pc = "crashed" => rewritten \in { { }, { "worker" } }

C8_Witness ==
    /\ pc = "crashed"
    /\ rewritten = { "worker" }
    /\ worker_file = WORKER_CSV_HEADER \o Rows(worker_logs, Len(worker_logs))
    /\ Len(worker_logs) >= 1
    /\ controller_file \in StaleFiles
    /\ controller_file # << >>

(* ------------------------------- C9 ------------------------------------ *)

\* the part of a dataset entry after '<timestamp>, '
EntryPayload(entry) ==
    LET k == CHOOSE i \in 1..Len(entry) :
                 entry[i] = "," /\ \A j \in 1..(i - 1) : entry[j] # ","
    IN  SubSeq(entry, k + 2, Len(entry))

SameColumns(text) ==
    LET lines == LinesOf(text)
    IN  \A i \in 1..Len(lines) : Columns(lines[i]) = Columns(lines[1])

\* C9: every entry of the Worker dataset has a payload of 11 comma-separated
\* fields and every entry of the Controller dataset one of 24, so every row
\* of a rewritten CSV has as many columns as its header: 12 and 25.
C9_FieldCounts ==
    /\ \A i \in 1..Len(worker_logs) :
          Columns(EntryPayload(worker_logs[i])) = 11 /\ Columns(worker_logs[i]) = 12
    /\ \A i \in 1..Len(controller_logs) :
          Columns(EntryPayload(controller_logs[i])) = 24 /\ Columns(controller_logs[i]) = 25
    /\ Columns(WORKER_CSV_HEADER) = 12
    /\ Columns(CONTROLLER_CSV_HEADER) = 25
    /\ "worker" \in rewritten =>
          (SameColumns(worker_file) /\ Len(LinesOf(worker_file)) >= 1 + Len(worker_logs))
    /\ "controller" \in rewritten =>
          (SameColumns(controller_file)
           /\ Len(LinesOf(controller_file)) >= 1 + Len(controller_logs))

C9_Witness ==
    /\ pc = "sleep"
    /\ Len(worker_logs) = 2
    /\ Len(controller_logs) = 1
    /\ \E i \in 1..Len(sent) : sent[i].fields[1] = << "a", "\"", "b" >>

(* ------------------------------- C10 ----------------------------------- *)

\* C10: when the input file cannot be opened at the start of a cycle the
\* process stops with both output files as they were, and once it has
\* stopped no later cycle runs and no file changes.
C10_MissingInput ==
    [][ /\ (pc = "loop" /\ ~input_readable) =>
              (pc' = "crashed" /\ worker_file' = worker_file
                               /\ controller_file' = controller_file)
        /\ pc = "crashed" =>
              (pc' = "crashed" /\ count' = count /\ stdout' = stdout
                               /\ worker_file' = worker_file
                               /\ controller_file' = controller_file)
      ]_vars

C10_Witness ==
    /\ pc = "crashed"
    /\ ~input_readable
    /\ count = 2
    /\ rewritten = { }
    /\ Len(LinesOf(worker_file)) = 2
    /\ Len(LinesOf(controller_file)) = 3

====
